---- MODULE Spec2Model ----
(***************************************************************************)
(* A model of the text preprocessing service: TextPreprocessor and         *)
(* FrequencyAnalyzer of starter_preprocess.py and the two POST handlers of *)
(* app.py.                                                                 *)
(*                                                                         *)
(* A text is a sequence of characters.  A character is a one-character     *)
(* string, except for the characters outside ASCII, which carry a name:    *)
(*   "LDQ" U+201C, "RDQ" U+201D (curly double quotes),                     *)
(*   "LSQ" U+2018, "RSQ" U+2019 (curly single quotes),                     *)
(*   "EMDASH" U+2014, "ENDASH" U+2013,                                     *)
(*   "BOM" U+FEFF, "ZWSP" U+200B,                                          *)
(* and a white space character that a string cannot hold carries its code  *)
(* point, "U+000B" for the vertical tab.                                   *)
(* Every operation of the program is a pure function of its arguments; an  *)
(* action of the model is one call of it: it draws the arguments, and      *)
(* leaves the operation's name in op, the arguments in arg and the value   *)
(* returned in ret; calls lists the calls a request handler made.          *)
(***************************************************************************)
EXTENDS Integers, Sequences, FiniteSets, TLC

VARIABLES pc, op, arg, ret, calls

vars == <<pc, op, arg, ret, calls>>

(***************************************************************************)
(* Characters and their classes, as Python's str and re see them           *)
(***************************************************************************)
LowerSeq ==
  <<"a", "b", "c", "d", "e", "f", "g", "h", "i", "j", "k", "l", "m",
    "n", "o", "p", "q", "r", "s", "t", "u", "v", "w", "x", "y", "z">>

UpperSeq ==
  <<"A", "B", "C", "D", "E", "F", "G", "H", "I", "J", "K", "L", "M",
    "N", "O", "P", "Q", "R", "S", "T", "U", "V", "W", "X", "Y", "Z">>

LowerLetters == {LowerSeq[i] : i \in 1..Len(LowerSeq)}

UpperLetters == {UpperSeq[i] : i \in 1..Len(UpperSeq)}

\* \w of a str pattern: letters, digits and the underscore
Digits == {"0", "1", "2", "3", "4", "5", "6", "7", "8", "9"}

WordChars == LowerLetters \cup UpperLetters \cup Digits \cup {"_"}

\* \s of a str pattern, which is what str.strip() strips and str.split()
\* splits on: the characters c with c.isspace()
SpaceChars ==
  {"\t", "\n", "U+000B", "\f", "\r", "U+001C", "U+001D", "U+001E", "U+001F", " ",
   "U+0085", "U+00A0", "U+1680", "U+2000", "U+2001", "U+2002", "U+2003",
   "U+2004", "U+2005", "U+2006", "U+2007", "U+2008", "U+2009", "U+200A",
   "U+2028", "U+2029", "U+202F", "U+205F", "U+3000"}

IsWord(c) == c \in WordChars

IsSpace(c) == c \in SpaceChars

\* str.lower() of one character
LowerChar(c) ==
  IF c \in UpperLetters
  THEN LowerSeq[CHOOSE i \in 1..Len(UpperSeq) : UpperSeq[i] = c]
  ELSE c

\* str.upper() of one character
UpperChar(c) ==
  IF c \in LowerLetters
  THEN UpperSeq[CHOOSE i \in 1..Len(LowerSeq) : LowerSeq[i] = c]
  ELSE c

(***************************************************************************)
(* Helpers on sequences                                                    *)
(***************************************************************************)
RECURSIVE PickRange(_, _, _, _)
\* the elements s[i], lo <= i <= hi, whose index is in keep, in order
PickRange(s, lo, hi, keep) ==
  IF lo > hi THEN <<>>
  ELSE IF lo = hi THEN (IF lo \in keep THEN <<s[lo]>> ELSE <<>>)
  ELSE LET mid == (lo + hi) \div 2
       IN  PickRange(s, lo, mid, keep) \o PickRange(s, mid + 1, hi, keep)

\* s with the elements whose index is not in keep deleted
Pick(s, keep) == PickRange(s, 1, Len(s), keep)

\* str.strip(): leading and trailing whitespace removed
Strip(s) ==
  LET idx == {i \in 1..Len(s) : ~IsSpace(s[i])}
  IN  IF idx = {} THEN <<>>
      ELSE LET lo == CHOOSE i \in idx : \A j \in idx : i <= j
               hi == CHOOSE i \in idx : \A j \in idx : j <= i
           IN  SubSeq(s, lo, hi)

\* re.sub(r'\s+', ' ', s)
CollapseWhitespace(s) ==
  LET keep == {i \in 1..Len(s) : ~IsSpace(s[i]) \/ i = 1 \/ ~IsSpace(s[i - 1])}
      blanked == [i \in 1..Len(s) |-> IF IsSpace(s[i]) THEN " " ELSE s[i]]
  IN  Pick(blanked, keep)

(***************************************************************************)
(* TextPreprocessor.normalize_text                                         *)
(***************************************************************************)
\* text.lower()
Lower(text) == [i \in 1..Len(text) |-> LowerChar(text[i])]

\* the three re.sub calls that canonicalize quotes and dashes
CanonQuoteChar(c) ==
  IF c \in {"LDQ", "RDQ"} THEN "\""
  ELSE IF c \in {"LSQ", "RSQ"} THEN "'"
  ELSE IF c \in {"EMDASH", "ENDASH"} THEN "-"
  ELSE c

\* KeepSentencePunct with the other characters deleted, not replaced by a space
KeepSentencePunct_Delete(text) ==
  SelectSeq(text, LAMBDA c :
    IsWord(c) \/ IsSpace(c) \/ c \in {".", "!", "?", "'", "-"})

\* re.sub(r'[^\w\s.!?\'-]', ' ', text)
KeepSentencePunct(text) ==
  [i \in 1..Len(text) |->
     IF IsWord(text[i]) \/ IsSpace(text[i]) \/ text[i] \in {".", "!", "?", "'", "-"}
     THEN text[i] ELSE " "]

\* whether r"(?<!\w)'(?!\w)|[^\w\s]" matches the character at position i
MatchesNonWord(text, i) ==
  \/ /\ text[i] = "'"
     /\ ~(i > 1 /\ IsWord(text[i - 1]))
     /\ ~(i < Len(text) /\ IsWord(text[i + 1]))
  \/ ~IsWord(text[i]) /\ ~IsSpace(text[i])

\* RemovePunct with the apostrophe left out of the second alternative, as in
\* r"(?<!\w)'(?!\w)|[^\w\s']"
RemovePunct_KeepApostrophes(text) ==
  [i \in 1..Len(text) |->
     IF \/ /\ text[i] = "'"
           /\ ~(i > 1 /\ IsWord(text[i - 1]))
           /\ ~(i < Len(text) /\ IsWord(text[i + 1]))
        \/ ~IsWord(text[i]) /\ ~IsSpace(text[i]) /\ text[i] # "'"
     THEN " " ELSE text[i]]

\* re.sub(r"(?<!\w)'(?!\w)|[^\w\s]", ' ', text)
RemovePunct(text) ==
  [i \in 1..Len(text) |-> IF MatchesNonWord(text, i) THEN " " ELSE text[i]]

\* normalize_text with the text stripped first, before the punctuation is
\* blanked and the whitespace collapsed
normalize_text_StripFirst(text, preserve_sentences) ==
  LET lowered == Strip(Lower(text))
      canon   == [i \in 1..Len(lowered) |-> CanonQuoteChar(lowered[i])]
      cleaned == IF preserve_sentences THEN KeepSentencePunct(canon)
                 ELSE RemovePunct(canon)
  IN  CollapseWhitespace(cleaned)

normalize_text(text, preserve_sentences) ==
  LET lowered == Lower(text)
      canon   == [i \in 1..Len(lowered) |-> CanonQuoteChar(lowered[i])]
      cleaned == IF preserve_sentences THEN KeepSentencePunct(canon)
                 ELSE RemovePunct(canon)
  IN  Strip(CollapseWhitespace(cleaned))

(***************************************************************************)
(* The tokenizers                                                          *)
(***************************************************************************)
\* the pieces of s between its characters of seps, the empty ones included
\* (str.split(sep) for a one-character sep)
SplitAt(s, seps) ==
  LET cut == {i \in 1..Len(s) : s[i] \in seps}
      n   == Cardinality(cut)
      \* the k-th cut from the left; the ends of s stand for cuts 0 and n + 1
      CutAt(k) == IF k = 0 THEN 0
                  ELSE IF k = n + 1 THEN Len(s) + 1
                  ELSE CHOOSE i \in cut : Cardinality({j \in cut : j <= i}) = k
  IN  [k \in 1..(n + 1) |-> SubSeq(s, CutAt(k - 1) + 1, CutAt(k) - 1)]

\* re.split(r'[.!?]+', text): a run of terminators separates once
SplitOnTerminators(text) ==
  LET T == {".", "!", "?"}
      firstOfRun == {i \in 1..Len(text) : text[i] \notin T \/ i = 1 \/ text[i - 1] \notin T}
  IN  SplitAt(Pick(text, firstOfRun), T)

tokenize_sentences(text) ==
  LET pieces == SelectSeq(SplitOnTerminators(text), LAMBDA f : Strip(f) # <<>>)
  IN  [i \in 1..Len(pieces) |-> Strip(pieces[i])]

tokenize_words(text) ==
  LET text_for_words == SelectSeq(text, LAMBDA c : c \notin {".", "!", "?"})
  IN  SelectSeq(SplitAt(text_for_words, SpaceChars), LAMBDA w : w # <<>>)

tokenize_chars(text, include_space) ==
  IF include_space THEN CollapseWhitespace(text)
  ELSE SelectSeq(text, LAMBDA c : c # " ")

get_sentence_lengths(sentences) ==
  [i \in 1..Len(sentences) |-> Len(tokenize_words(sentences[i]))]

(***************************************************************************)
(* collections.Counter: the distinct items in the order of their first     *)
(* occurrence, each with the number of its occurrences                     *)
(***************************************************************************)
Counter(items) ==
  LET first == {i \in 1..Len(items) : \A j \in 1..(i - 1) : items[j] # items[i]}
      keys  == Pick(items, first)
  IN  [k \in 1..Len(keys) |->
         <<keys[k], Cardinality({i \in 1..Len(items) : items[i] = keys[k]})>>]

\* sorted(entries, key=count)[::-1]: equal counts come out in reverse order
SortedAscReversed(entries) ==
  LET Rank(i) == Cardinality({j \in 1..Len(entries) :
                    \/ entries[j][2] > entries[i][2]
                    \/ entries[j][2] = entries[i][2] /\ j >= i})
  IN  [k \in 1..Len(entries) |-> entries[CHOOSE i \in 1..Len(entries) : Rank(i) = k]]

\* sorted(entries, key=count, reverse=True): stable, so equal counts keep
\* the order they had.  An entry's place is the number of entries that go
\* before it, itself included.
SortedByCountDesc(entries) ==
  LET Rank(i) == Cardinality({j \in 1..Len(entries) :
                    \/ entries[j][2] > entries[i][2]
                    \/ entries[j][2] = entries[i][2] /\ j <= i})
  IN  [k \in 1..Len(entries) |-> entries[CHOOSE i \in 1..Len(entries) : Rank(i) = k]]

\* Counter.most_common(n)
most_common(counts, n) ==
  LET sorted == SortedByCountDesc(counts)
  IN  SubSeq(sorted, 1, IF n < Len(sorted) THEN n ELSE Len(sorted))

(***************************************************************************)
(* TextPreprocessor.get_text_statistics                                    *)
(***************************************************************************)
\* the argument of most_common
TopWords == 10

RECURSIVE SumRange(_, _, _)
SumRange(s, lo, hi) ==
  IF lo > hi THEN 0
  ELSE IF lo = hi THEN s[lo]
  ELSE LET mid == (lo + hi) \div 2
       IN  SumRange(s, lo, mid) + SumRange(s, mid + 1, hi)

\* sum(s)
SumSeq(s) == SumRange(s, 1, Len(s))

\* a / b: the quotient as a fraction, or the ZeroDivisionError Python raises
TrueDiv(a, b) ==
  IF b = 0 THEN [raised |-> TRUE, num |-> 0, den |-> 1]
  ELSE [raised |-> FALSE, num |-> a, den |-> b]

\* 2^k mod 200
RECURSIVE Pow2Mod200(_)
Pow2Mod200(k) ==
  IF k = 0 THEN 1
  ELSE LET h == Pow2Mod200(k \div 2)
       IN  (h * h * (IF k % 2 = 1 THEN 2 ELSE 1)) % 200

\* The binary exponent of the float nearest to n/200, n > 0: the e with
\* 2^e <= n/200 < 2^(e+1).
FloatExponent(n) ==
  IF n >= 200
  THEN CHOOSE e \in 0..23 : 2^e <= n \div 200 /\ n \div 200 < 2^(e + 1)
  ELSE -(CHOOSE s \in 1..8 : n * 2^s >= 200 /\ n * 2^(s - 1) < 200)

\* Whether the float nearest to n/200 is above n/200, for n/200 no multiple
\* of 1/8.  A float keeps 53 bits, the integer part of n * 2^(52-e) / 200; it
\* is rounded up when the fraction left, a number of 200ths, is over a half.
FloatIsAbove(n) ==
  ((n % 200) * Pow2Mod200(52 - FloatExponent(n))) % 200 > 100

\* round(x, 2) of the float of a quotient of two naturals, in hundredths;
\* n counts the 200ths in the quotient.  The float is within 2^-53 of the
\* quotient, so it is rounded as the quotient is unless the quotient is a
\* tie, an odd number of 200ths.  A tie that is a multiple of 1/8 is the
\* float itself, and round() takes the even hundredth; any other tie is
\* settled by the side of it the float lies on.  (Numerators to 10^7.)
Round2(x) ==
  LET n   == (200 * x.num) \div x.den
      rem == (200 * x.num) % x.den
      q   == n \div 2
  IN  IF n % 2 = 0 THEN q
      ELSE IF rem > 0 THEN q + 1
      ELSE IF n % 25 = 0 THEN (IF q % 2 = 0 THEN q ELSE q + 1)
      ELSE IF FloatIsAbove(n) THEN q + 1 ELSE q

\* a / b with no guard
UnguardedDiv(a, b) == TrueDiv(a, b)

\* (a / b) if b > 0 else 0
GuardedDiv(a, b) ==
  IF b > 0 THEN TrueDiv(a, b) ELSE [raised |-> FALSE, num |-> 0, den |-> 1]

\* The record returned, its two averages in hundredths; raised tells whether
\* the call ended in an exception instead.
get_text_statistics(text) ==
  LET normalized_words_text == normalize_text(text, FALSE)
      words == tokenize_words(normalized_words_text)
      chars == tokenize_chars(normalized_words_text, FALSE)
      normalized_sentences_text == normalize_text(text, TRUE)
      sentences == tokenize_sentences(normalized_sentences_text)
      total_characters == Len(chars)
      total_words == Len(words)
      total_sentences == Len(sentences)
      total_word_length == SumSeq([i \in 1..Len(words) |-> Len(words[i])])
      sentence_lengths == get_sentence_lengths(sentences)
      avg_word_length == GuardedDiv(total_word_length, total_words)
      avg_sentence_length == GuardedDiv(SumSeq(sentence_lengths), total_sentences)
      word_counts == Counter(words)
  IN  IF avg_word_length.raised \/ avg_sentence_length.raised
      THEN [raised |-> TRUE]
      ELSE [raised |-> FALSE,
            total_characters |-> total_characters,
            total_words |-> total_words,
            total_sentences |-> total_sentences,
            avg_word_length |-> Round2(avg_word_length),
            avg_sentence_length |-> Round2(avg_sentence_length),
            most_common_words |-> most_common(word_counts, TopWords)]

(***************************************************************************)
(* TextPreprocessor.create_summary                                         *)
(***************************************************************************)
\* s[:k] of a list
SliceTo(s, k) ==
  LET n   == Len(s)
      end == IF k >= 0 THEN (IF k < n THEN k ELSE n)
             ELSE (IF n + k > 0 THEN n + k ELSE 0)
  IN  SubSeq(s, 1, end)

RECURSIVE JoinRange(_, _, _, _)
JoinRange(parts, lo, hi, sep) ==
  IF lo > hi THEN <<>>
  ELSE IF lo = hi THEN parts[lo]
  ELSE LET mid == (lo + hi) \div 2
       IN  JoinRange(parts, lo, mid, sep) \o sep \o JoinRange(parts, mid + 1, hi, sep)

\* sep.join(parts)
JoinWith(parts, sep) == JoinRange(parts, 1, Len(parts), sep)

\* CapitalizeFirst done to every sentence of the summary
CapitalizeEach(summary_sentences) ==
  [i \in 1..Len(summary_sentences) |->
     <<UpperChar(summary_sentences[i][1])>> \o Tail(summary_sentences[i])]

\* first_sentence[0].upper() + first_sentence[1:], put back at index 0
CapitalizeFirst(summary_sentences) ==
  IF summary_sentences # <<>>
  THEN LET first_sentence == summary_sentences[1]
       IN  [summary_sentences EXCEPT
              ![1] = <<UpperChar(first_sentence[1])>> \o Tail(first_sentence)]
  ELSE summary_sentences

\* the closing '.' added to a summary that does not end a sentence
Terminate(summary_string) ==
  IF summary_string # <<>> /\ summary_string[Len(summary_string)] \notin {".", "!", "?"}
  THEN Append(summary_string, ".")
  ELSE summary_string

create_summary(text, num_sentences) ==
  LET normalized_text == normalize_text(text, TRUE)
      sentences == tokenize_sentences(normalized_text)
      summary_sentences == CapitalizeFirst(SliceTo(sentences, num_sentences))
  IN  Terminate(JoinWith(summary_sentences, <<".", " ">>))

(***************************************************************************)
(* TextPreprocessor.clean_gutenberg_text                                   *)
(***************************************************************************)
Marker0 ==
  <<"*", "*", "*", " ", "S", "T", "A", "R", "T", " ", "O", "F", " ", "T",
    "H", "I", "S", " ", "P", "R", "O", "J", "E", "C", "T", " ", "G", "U",
    "T", "E", "N", "B", "E", "R", "G">>

Marker1 ==
  <<"*", "*", "*", " ", "E", "N", "D", " ", "O", "F", " ", "T", "H", "I",
    "S", " ", "P", "R", "O", "J", "E", "C", "T", " ", "G", "U", "T", "E",
    "N", "B", "E", "R", "G">>

Marker2 ==
  <<"*", "*", "*", " ", "S", "T", "A", "R", "T", " ", "O", "F", " ", "T",
    "H", "E", " ", "P", "R", "O", "J", "E", "C", "T", " ", "G", "U", "T",
    "E", "N", "B", "E", "R", "G">>

Marker3 ==
  <<"*", "*", "*", " ", "E", "N", "D", " ", "O", "F", " ", "T", "H", "E",
    " ", "P", "R", "O", "J", "E", "C", "T", " ", "G", "U", "T", "E", "N",
    "B", "E", "R", "G">>

Marker4 ==
  <<"*", "E", "N", "D", "*", "T", "H", "E", " ", "S", "M", "A", "L", "L",
    " ", "P", "R", "I", "N", "T">>

Marker5 ==
  <<"<", "<", "T", "H", "I", "S", " ", "E", "L", "E", "C", "T", "R", "O",
    "N", "I", "C", " ", "V", "E", "R", "S", "I", "O", "N">>

\* self.gutenberg_markers
gutenberg_markers == <<Marker0, Marker1, Marker2, Marker3, Marker4, Marker5>>

\* needle in line, of two strings
Contains(line, needle) ==
  \E i \in 1..(Len(line) - Len(needle) + 1) :
     \A j \in 1..Len(needle) : line[i + j - 1] = needle[j]

\* re.sub(r'^[\ufeff\u200b\s]+', '', text)
remove_leading_junk(text) ==
  LET junk  == {"BOM", "ZWSP"} \cup SpaceChars
      solid == {i \in 1..Len(text) : text[i] \notin junk}
  IN  IF solid = {} THEN <<>>
      ELSE SubSeq(text, CHOOSE i \in solid : \A j \in solid : i <= j, Len(text))

\* any(marker in line for marker in self.gutenberg_markers[:4])
HasMarker(line) ==
  \E m \in 1..4 : Contains(line, gutenberg_markers[m])

\* ScanLine with start_idx set by the first START line only
ScanLine_FirstStartOnly(line, i, st) ==
  IF HasMarker(line)
  THEN IF Contains(line, <<"S", "T", "A", "R", "T">>)
       THEN IF st.start_idx = 0 THEN [st EXCEPT !.start_idx = i + 1] ELSE st
       ELSE IF Contains(line, <<"E", "N", "D">>)
       THEN [st EXCEPT !.end_idx = i, !.broke = TRUE]
       ELSE st
  ELSE st

\* One iteration of the loop over enumerate(lines), on line i (counted from
\* 0); st holds start_idx, end_idx and whether the loop has hit its break.
ScanLine(line, i, st) ==
  IF HasMarker(line)
  THEN IF Contains(line, <<"S", "T", "A", "R", "T">>)
       THEN [st EXCEPT !.start_idx = i + 1]
       ELSE IF Contains(line, <<"E", "N", "D">>)
       THEN [st EXCEPT !.end_idx = i, !.broke = TRUE]
       ELSE st
  ELSE st

RECURSIVE ScanFrom(_, _, _)
ScanFrom(lines, i, st) ==
  IF i >= Len(lines) \/ st.broke THEN st
  ELSE ScanFrom(lines, i + 1, ScanLine(lines[i + 1], i, st))

\* the loop, from start_idx = 0 and end_idx = len(lines)
ScanMarkers(lines) ==
  ScanFrom(lines, 0, [start_idx |-> 0, end_idx |-> Len(lines), broke |-> FALSE])

\* re.sub(r'\n{3,}', '\n\n', s)
CollapseNewlines(s) ==
  LET IsNl(i) == i >= 1 /\ i <= Len(s) /\ s[i] = "\n"
      keep == {i \in 1..Len(s) : ~(IsNl(i) /\ IsNl(i - 1) /\ IsNl(i - 2))}
  IN  Pick(s, keep)

\* re.sub(r' {2,}', ' ', s)
CollapseSpaces(s) ==
  Pick(s, {i \in 1..Len(s) : ~(s[i] = " " /\ i > 1 /\ s[i - 1] = " ")})

\* The locals of clean_gutenberg_text at its return; cleaned is the value
\* returned.  Indexes count lines from 0, as the code does.
CleanLocals(raw_text) ==
  LET lines == SplitAt(remove_leading_junk(raw_text), {"\n"})
      st    == ScanMarkers(lines)
      kept  == SubSeq(lines, st.start_idx + 1, st.end_idx)
      cleaned == JoinWith(kept, <<"\n">>)
  IN  [lines |-> lines, start_idx |-> st.start_idx, end_idx |-> st.end_idx,
       cleaned |-> Strip(CollapseSpaces(CollapseNewlines(cleaned)))]

clean_gutenberg_text(raw_text) == CleanLocals(raw_text).cleaned

(***************************************************************************)
(* FrequencyAnalyzer                                                       *)
(*                                                                         *)
(* A table (a dict) is the sequence of its entries in insertion order.  A  *)
(* key is a string, [tuple |-> FALSE, val |-> the string], or a tuple of   *)
(* strings, [tuple |-> TRUE, val |-> the sequence of its elements].        *)
(***************************************************************************)
StrKey(str) == [tuple |-> FALSE, val |-> str]

TupleKey(elems) == [tuple |-> TRUE, val |-> elems]

KeyEq(k1, k2) == k1.tuple = k2.tuple /\ k1.val = k2.val

\* d[key] = value
DictSet(d, key, value) ==
  LET at == {i \in 1..Len(d) : KeyEq(d[i].key, key)}
  IN  IF at = {} THEN Append(d, [key |-> key, count |-> value])
      ELSE [i \in 1..Len(d) |-> IF i \in at THEN [key |-> key, count |-> value] ELSE d[i]]

\* d1 == d2 of two dicts: the same keys with the same values, in any order
DictEq(d1, d2) ==
  /\ \A i \in 1..Len(d1) : \E j \in 1..Len(d2) :
        KeyEq(d1[i].key, d2[j].key) /\ d1[i].count = d2[j].count
  /\ \A j \in 1..Len(d2) : \E i \in 1..Len(d1) :
        KeyEq(d1[i].key, d2[j].key) /\ d1[i].count = d2[j].count

\* the windows tokens[i:i + n] for i in range(len(tokens) - n + 1)
Windows(tokens, n) ==
  [i \in 1..(IF Len(tokens) - n + 1 > 0 THEN Len(tokens) - n + 1 ELSE 0) |->
     SubSeq(tokens, i, i + n - 1)]

calculate_ngrams(tokens, n) ==
  IF n = 1
  THEN LET c == Counter(tokens)
       IN  [i \in 1..Len(c) |-> [key |-> StrKey(c[i][1]), count |-> c[i][2]]]
  ELSE LET c == Counter(Windows(tokens, n))
       IN  [i \in 1..Len(c) |-> [key |-> TupleKey(c[i][1]), count |-> c[i][2]]]

\* the delimiter of the elements of a tuple key
Delimiter == <<"|", "|">>

\* the key as save_frequencies writes it
JsonKey(key) == IF key.tuple THEN JoinWith(key.val, Delimiter) ELSE key.val

RECURSIVE SaveFrom(_, _)
SaveFrom(frequencies, json_friendly) ==
  IF frequencies = <<>> THEN json_friendly
  ELSE LET e == Head(frequencies)
       IN  SaveFrom(Tail(frequencies),
                    DictSet(json_friendly, StrKey(JsonKey(e.key)), e.count))

\* The file written: the members of the JSON object, in order.  json.dump
\* and json.load keep a string key and an integer value as they are.
save_frequencies(frequencies) == SaveFrom(frequencies, <<>>)

RECURSIVE SplitOnDelimiter(_)
\* key.split('||'): cut at each occurrence found from the left
SplitOnDelimiter(str) ==
  LET at == {i \in 1..(Len(str) - 1) : str[i] = "|" /\ str[i + 1] = "|"}
  IN  IF at = {} THEN <<str>>
      ELSE LET i == CHOOSE c \in at : \A d \in at : c <= d
           IN  <<SubSeq(str, 1, i - 1)>> \o SplitOnDelimiter(SubSeq(str, i + 2, Len(str)))

\* the key load_frequencies makes of a key of the file
LoadedKey(str) ==
  IF Contains(str, Delimiter) THEN TupleKey(SplitOnDelimiter(str)) ELSE StrKey(str)

RECURSIVE LoadFrom(_, _)
LoadFrom(json_data, frequencies) ==
  IF json_data = <<>> THEN frequencies
  ELSE LET e == Head(json_data)
       IN  LoadFrom(Tail(json_data),
                    DictSet(frequencies, LoadedKey(e.key.val), e.count))

load_frequencies(file) == LoadFrom(file, <<>>)

(***************************************************************************)
(* app.py: the handlers of POST /api/clean and POST /api/analyze           *)
(*                                                                         *)
(* The body request.get_json() returns is None, [kind |-> "none"], or an   *)
(* object, of which the model keeps the keys "url" and "text".  A value is *)
(* a string, [str |-> TRUE, val |-> the string], or not a string.          *)
(***************************************************************************)
NotAString == [str |-> FALSE, val |-> <<>>]

JsonString(text) == [str |-> TRUE, val |-> text]

NoBody == [kind |-> "none", keys |-> {}, url |-> NotAString, text |-> NotAString]

\* s.endswith(suffix)
EndsWith(str, suffix) ==
  /\ Len(str) >= Len(suffix)
  /\ SubSeq(str, Len(str) - Len(suffix) + 1, Len(str)) = suffix

\* TextPreprocessor.fetch_from_url.  net is what requests.get does: "error"
\* for a RequestException or a status raise_for_status rejects, and the
\* text of the response otherwise.  A url that is no string has no lower().
fetch_from_url(url, net) ==
  IF ~url.str THEN [raised |-> TRUE, text |-> <<>>]
  ELSE IF ~EndsWith(Lower(url.val), <<".", "t", "x", "t">>)
  THEN [raised |-> TRUE, text |-> <<>>]
  ELSE IF net.error THEN [raised |-> TRUE, text |-> <<>>]
  ELSE [raised |-> FALSE, text |-> net.text]

\* num_sentences of the summary of /api/clean
SummarySentences == 3

Failure(status, error, made) ==
  [response |-> [status |-> status, success |-> FALSE, error |-> error,
                 cleaned_text |-> <<>>, statistics |-> [raised |-> FALSE],
                 summary |-> <<>>],
   calls |-> made]

Call(fn, text) == [fn |-> fn, text |-> text]

\* clean_text(): the response, and the calls made on the preprocessor that
\* were given a text, in order
clean_text(data, net) ==
  IF data.kind = "none" \/ "url" \notin data.keys
  THEN Failure(400, "Missing 'url' field", <<>>)
  ELSE
  LET raw == fetch_from_url(data.url, net)
  IN
  IF raw.raised THEN Failure(500, "Text Processing Error", <<>>)
  ELSE
  LET gutenberg_cleaned_text == clean_gutenberg_text(raw.text)
      normalized_text == normalize_text(gutenberg_cleaned_text, TRUE)
      calls2 == <<Call("clean_gutenberg_text", raw.text),
                  Call("normalize_text", gutenberg_cleaned_text)>>
  IN
  IF normalized_text = <<>>
  THEN Failure(400, "The text was cleaned down to nothing", calls2)
  ELSE
  LET statistics == get_text_statistics(normalized_text)
      calls3 == Append(calls2, Call("get_text_statistics", normalized_text))
  IN
  IF statistics.raised THEN Failure(500, "Text Processing Error", calls3)
  ELSE
  [response |-> [status |-> 200, success |-> TRUE, error |-> "",
                 cleaned_text |-> normalized_text, statistics |-> statistics,
                 summary |-> create_summary(normalized_text, SummarySentences)],
   calls |-> Append(calls3, Call("create_summary", normalized_text))]

\* analyze_text()
analyze_text(data) ==
  IF data.kind = "none" \/ "text" \notin data.keys
  THEN Failure(400, "Missing 'text' field", <<>>)
  ELSE
  IF ~data.text.str THEN Failure(500, "Processing error", <<>>)
  ELSE
  LET raw_text == data.text.val
      normalized_text == normalize_text(raw_text, TRUE)
      statistics == get_text_statistics(normalized_text)
      calls2 == <<Call("normalize_text", raw_text),
                  Call("get_text_statistics", normalized_text)>>
  IN
  IF statistics.raised THEN Failure(500, "Processing error", calls2)
  ELSE
  [response |-> [status |-> 200, success |-> TRUE, error |-> "",
                 cleaned_text |-> <<>>, statistics |-> statistics,
                 summary |-> <<>>],
   calls |-> calls2]

(***************************************************************************)
(* Bounds of the model                                                     *)
(***************************************************************************)
\* longest text given to normalize_text
MaxLen == 4
\* longest text given to create_summary, and the largest num_sentences
MaxSumLen == 5
MaxK == 3
\* longest free text given to get_text_statistics, and the most words that
\* follow the fixed words of a word list given to it
MaxStatLen == 4
MaxSuffix == 3
\* most lines of a document given to clean_gutenberg_text
MaxLines == 4
\* most tokens given to calculate_ngrams
MaxTokens == 3
\* longest text posted to /api/analyze, most lines of a document fetched
MaxAppLen == 3
MaxAppLines == 2

(***************************************************************************)
(* Inputs                                                                  *)
(***************************************************************************)
RECURSIVE SeqsUpTo(_, _)
\* all sequences of at most n elements of A
SeqsUpTo(A, n) ==
  IF n = 0 THEN {<<>>}
  ELSE LET shorter == SeqsUpTo(A, n - 1)
       IN  shorter \cup {Append(t, c) : t \in {u \in shorter : Len(u) = n - 1}, c \in A}

\* a lower and an upper case letter, both kinds of whitespace, a sentence
\* terminator, the apostrophe straight and curly, the hyphen and the dash, a
\* curly double quote and one more punctuation character
NormAlphabet ==
  {"a", "B", " ", "\n", "\r", ".", "'", "RSQ", "-", "EMDASH", "LDQ", ","}

NormTexts == SeqsUpTo(NormAlphabet, MaxLen)

SumAlphabet == {"a", "B", " ", ".", "!", "'"}

SumTexts == SeqsUpTo(SumAlphabet, MaxSumLen)

StatAlphabet == {"a", "B", " ", "\r", ".", "'", ",", "-"}

\* nine distinct words
NineWords ==
  <<<<"a">>, <<"b">>, <<"c">>, <<"d">>, <<"e">>, <<"f">>, <<"g">>, <<"h">>, <<"i">>>>

\* two words of NineWords and two more
SuffixWords == {<<"a">>, <<"b">>, <<"j">>, <<"k">>}

\* word lists: nothing or the nine words, then a few of SuffixWords
WordLists ==
  {prefix \o suffix : prefix \in {<<>>, NineWords},
                      suffix \in SeqsUpTo(SuffixWords, MaxSuffix)}

\* forty words with 43 letters: an average no float holds, 1.075
FortyWords ==
  JoinWith([i \in 1..40 |-> IF i <= 37 THEN <<"a">> ELSE <<"b", "b">>], <<" ">>)

StatTexts ==
  SeqsUpTo(StatAlphabet, MaxStatLen)
  \cup {JoinWith(ws, <<" ">>) : ws \in WordLists}
  \cup {FortyWords}

\* the lines of a document: text, an empty line, an empty line of a file
\* with \r\n line ends, a start line, an end line, an end line that goes on
\* with the word START, and a marker the scan does not look for
LineText == <<"H", "i", " ", " ", "a", ".">>
LineCr == <<"\r">>
LineStart == Marker0
LineEnd == Marker3
LineEndStart == Marker1 \o <<" ", "S", "T", "A", "R", "T">>
LineSmallPrint == Marker4

DocLines == {LineText, <<>>, LineCr, LineStart, LineEnd, LineEndStart, LineSmallPrint}

\* documents of 1 to n lines, as they are or after a byte order mark
RawDocs(n) ==
  {junk \o JoinWith(ls, <<"\n">>) :
     junk \in {<<>>, <<"BOM">>}, ls \in SeqsUpTo(DocLines, n) \ {<<>>}}

\* tokens: two letters, the bar and a word with the delimiter in it
TokenKinds == {<<"a">>, <<"b">>, <<"|">>, <<"a", "|", "|", "b">>}

TokenLists == SeqsUpTo(TokenKinds, MaxTokens) \ {<<>>}

Urls ==
  {JsonString(<<"a", ".", "t", "x", "t">>), JsonString(<<"A", ".", "T", "X", "T">>),
   JsonString(<<"a", ".", "h", "t", "m">>), NotAString}

AppTexts == SeqsUpTo({"a", "B", " ", ".", ","}, MaxAppLen)

CleanBodies ==
  {NoBody, [kind |-> "object", keys |-> {}, url |-> NotAString, text |-> NotAString]}
  \cup {[kind |-> "object", keys |-> {"url"}, url |-> u, text |-> NotAString] : u \in Urls}

AnalyzeBodies ==
  {NoBody, [kind |-> "object", keys |-> {}, url |-> NotAString, text |-> NotAString],
   [kind |-> "object", keys |-> {"text"}, url |-> NotAString, text |-> NotAString]}
  \cup {[kind |-> "object", keys |-> {"text"}, url |-> NotAString, text |-> JsonString(t)] :
          t \in AppTexts}

NetOutcomes ==
  {[error |-> TRUE, text |-> <<>>]}
  \cup {[error |-> FALSE, text |-> d] : d \in RawDocs(MaxAppLines)}

(***************************************************************************)
(* The calls                                                               *)
(***************************************************************************)
Init ==
  /\ pc = "idle"
  /\ op = "none"
  /\ arg = <<>>
  /\ ret = <<>>
  /\ calls = <<>>

\* the caller takes the result; the next call may start
Return ==
  /\ pc = "done"
  /\ pc' = "idle"
  /\ op' = "none"
  /\ arg' = <<>>
  /\ ret' = <<>>
  /\ calls' = <<>>

CallNormalize ==
  /\ pc = "idle"
  /\ \E t \in NormTexts, p \in BOOLEAN :
       /\ arg' = [text |-> t, preserve_sentences |-> p]
       /\ ret' = normalize_text(t, p)
  /\ op' = "normalize_text"
  /\ pc' = "done"
  /\ UNCHANGED calls

CallStatistics ==
  /\ pc = "idle"
  /\ \E t \in StatTexts :
       /\ arg' = [text |-> t]
       /\ ret' = get_text_statistics(t)
  /\ op' = "get_text_statistics"
  /\ pc' = "done"
  /\ UNCHANGED calls

CallSummary ==
  /\ pc = "idle"
  /\ \E t \in SumTexts, k \in -1..MaxK :
       /\ arg' = [text |-> t, num_sentences |-> k]
       /\ ret' = create_summary(t, k)
  /\ op' = "create_summary"
  /\ pc' = "done"
  /\ UNCHANGED calls

CallClean ==
  /\ pc = "idle"
  /\ \E d \in RawDocs(MaxLines) :
       /\ arg' = [raw_text |-> d]
       /\ ret' = CleanLocals(d)
  /\ op' = "clean_gutenberg_text"
  /\ pc' = "done"
  /\ UNCHANGED calls

\* calculate_ngrams, save_frequencies of its table, load_frequencies of the file
CallNgramRoundTrip ==
  /\ pc = "idle"
  /\ \E tokens \in TokenLists, n \in 1..3 :
       LET table == calculate_ngrams(tokens, n)
           file  == save_frequencies(table)
       IN  /\ arg' = [tokens |-> tokens, n |-> n]
           /\ ret' = [table |-> table, file |-> file, loaded |-> load_frequencies(file)]
  /\ op' = "ngram_round_trip"
  /\ pc' = "done"
  /\ UNCHANGED calls

PostClean ==
  /\ pc = "idle"
  /\ \E data \in CleanBodies, net \in NetOutcomes :
       LET r == clean_text(data, net)
       IN  /\ arg' = [data |-> data, net |-> net]
           /\ ret' = r.response
           /\ calls' = r.calls
  /\ op' = "clean_text"
  /\ pc' = "done"

PostAnalyze ==
  /\ pc = "idle"
  /\ \E data \in AnalyzeBodies :
       LET r == analyze_text(data)
       IN  /\ arg' = [data |-> data]
           /\ ret' = r.response
           /\ calls' = r.calls
  /\ op' = "analyze_text"
  /\ pc' = "done"

Next ==
  \/ CallNormalize
  \/ CallStatistics
  \/ CallSummary
  \/ CallClean
  \/ CallNgramRoundTrip
  \/ PostClean
  \/ PostAnalyze
  \/ Return

Spec == Init /\ [][Next]_vars

\* the calls of one operation at a time
NextNormalize == CallNormalize \/ Return
SpecNormalize == Init /\ [][NextNormalize]_vars

NextStatistics == CallStatistics \/ Return
SpecStatistics == Init /\ [][NextStatistics]_vars

NextSummary == CallSummary \/ Return
SpecSummary == Init /\ [][NextSummary]_vars

NextClean == CallClean \/ Return
SpecClean == Init /\ [][NextClean]_vars

NextNgram == CallNgramRoundTrip \/ Return
SpecNgram == Init /\ [][NextNgram]_vars

NextApp == PostClean \/ PostAnalyze \/ Return
SpecApp == Init /\ [][NextApp]_vars

(***************************************************************************)
(* Properties of normalize_text                                            *)
(***************************************************************************)
Normalized == pc = "done" /\ op = "normalize_text"

\* C1: normalize_text is idempotent: normalizing its result again, with the
\* same preserve_sentences, gives the same text.
C1_NormalizeIdempotent ==
  Normalized => normalize_text(ret, arg.preserve_sentences) = ret

\* C1 at work: a text with an upper-case letter, punctuation and a line break
\* was normalized to something else, with either flag
C1_Witness ==
  /\ Normalized
  /\ arg.text = <<"B", ",", "\n", "a">>
  /\ ret = <<"b", " ", "a">>

\* the characters of text next to position i, or none at a boundary
InsideWord(text, i) ==
  /\ i > 1 /\ IsWord(text[i - 1])
  /\ i < Len(text) /\ IsWord(text[i + 1])

\* C9: normalize_text(t, preserve_sentences=False) holds only word
\* characters, single spaces and apostrophes, and each apostrophe in it has a
\* word character right before it and right after it.
C9_OnlyWordsAndInnerApostrophes ==
  (Normalized /\ ~arg.preserve_sentences) =>
    \A i \in 1..Len(ret) :
       /\ IsWord(ret[i]) \/ ret[i] = " " \/ ret[i] = "'"
       /\ (ret[i] = " " /\ i > 1) => ret[i - 1] # " "
       /\ ret[i] = "'" => InsideWord(ret, i)

\* C9 at work: a text with an apostrophe after a word and a curly one before
\* a word was normalized without preserve_sentences
C9_Witness ==
  /\ Normalized
  /\ ~arg.preserve_sentences
  /\ arg.text = <<"a", "'", " ", "RSQ">>
  /\ ret = <<"a">>

(***************************************************************************)
(* Properties of get_text_statistics                                       *)
(***************************************************************************)
Counted == pc = "done" /\ op = "get_text_statistics"

\* the word list the statistics are computed from
WordsOf(text) == tokenize_words(normalize_text(text, FALSE))

Occurrences(words, w) == Cardinality({j \in 1..Len(words) : words[j] = w})

FirstOccurrence(words, w) ==
  CHOOSE j \in 1..Len(words) : words[j] = w /\ \A k \in 1..(j - 1) : words[k] # w

\* C4: most_common_words has at most 10 pairs, each a word of the word list
\* with the number of its occurrences; the counts do not increase along it,
\* words of equal count are in the order of their first occurrence, and no
\* word left out occurs more often than a word in it.
C4_MostCommonWords ==
  Counted =>
    LET words == WordsOf(arg.text)
        mc    == ret.most_common_words
        In(w) == \E i \in 1..Len(mc) : mc[i][1] = w
    IN  /\ ~ret.raised
        /\ Len(mc) <= 10
        /\ \A i \in 1..Len(mc) :
              /\ mc[i][2] = Occurrences(words, mc[i][1])
              /\ mc[i][2] >= 1
        /\ \A i, j \in 1..Len(mc) :
              i < j => /\ mc[i][1] # mc[j][1]
                       /\ mc[i][2] >= mc[j][2]
                       /\ mc[i][2] = mc[j][2] =>
                            FirstOccurrence(words, mc[i][1]) < FirstOccurrence(words, mc[j][1])
        /\ \A k \in 1..Len(words) :
              ~In(words[k]) =>
                 \A i \in 1..Len(mc) : Occurrences(words, words[k]) <= mc[i][2]

\* C4 at work: twelve words, eleven of them distinct, the one that occurs
\* twice first seen last; ten pairs were returned and a word was left out
C4_Witness ==
  /\ Counted
  /\ ret.total_words = 12
  /\ Len(ret.most_common_words) = 10
  /\ ret.most_common_words[1] = <<<<"k">>, 2>>
  /\ ret.most_common_words[2] = <<<<"a">>, 1>>
  /\ \A i \in 1..10 : ret.most_common_words[i][1] # <<"j">>

\* C6: get_text_statistics raises for no text: avg_word_length is 0 when
\* there is no word, avg_sentence_length is 0 when there is no sentence, and
\* for the empty text every count and average is 0 and most_common_words is
\* empty.
C6_NoFailureOnEmpty ==
  Counted =>
    /\ ~ret.raised
    /\ WordsOf(arg.text) = <<>> => ret.avg_word_length = 0
    /\ tokenize_sentences(normalize_text(arg.text, TRUE)) = <<>> =>
         ret.avg_sentence_length = 0
    /\ arg.text = <<>> =>
         /\ ret.total_characters = 0
         /\ ret.total_words = 0
         /\ ret.total_sentences = 0
         /\ ret.avg_word_length = 0
         /\ ret.avg_sentence_length = 0
         /\ ret.most_common_words = <<>>

\* C6 at work: the statistics of the empty text were returned
C6_Witness ==
  /\ Counted
  /\ arg.text = <<>>
  /\ ~ret.raised
  /\ ret.total_sentences = 0

\* C10: the statistics of normalize_text(t, True), which the handlers ask
\* for, are the statistics of t itself; normalizing with preserve_sentences
\* first changes neither normalization of t.
C10_PreNormalizingKeepsStatistics ==
  Counted =>
    LET pre == normalize_text(arg.text, TRUE)
    IN  /\ get_text_statistics(pre) = ret
        /\ normalize_text(pre, FALSE) = normalize_text(arg.text, FALSE)
        /\ normalize_text(pre, TRUE) = pre

\* C10 at work: a text that normalization changes, with two words set apart
\* by a comma only
C10_Witness ==
  /\ Counted
  /\ arg.text = <<"B", ",", "a", ".">>
  /\ ret.total_words = 2
  /\ ret.total_sentences = 1

(***************************************************************************)
(* Properties of create_summary                                            *)
(***************************************************************************)
Summarized == pc = "done" /\ op = "create_summary"

RECURSIVE JoinedSentences(_, _)
\* the first m of sents, ". " between each two
JoinedSentences(sents, m) ==
  IF m = 0 THEN <<>>
  ELSE IF m = 1 THEN sents[1]
  ELSE JoinedSentences(sents, m - 1) \o <<".", " ">> \o sents[m]

\* C5: for k >= 0 the summary is the first min(k, number of sentences)
\* sentences of the sentence-preserving normalization, in order, joined with
\* ". ", the first character of the first one in upper case, and one "."
\* after them; it is empty when no sentence is retained, and never ends with
\* two terminators.
C5_SummaryIsFirstSentences ==
  (Summarized /\ arg.num_sentences >= 0) =>
    LET sents  == tokenize_sentences(normalize_text(arg.text, TRUE))
        m      == IF arg.num_sentences < Len(sents) THEN arg.num_sentences ELSE Len(sents)
        joined == JoinedSentences(sents, m)
    IN  IF m = 0 THEN ret = <<>>
        ELSE /\ ret = <<UpperChar(joined[1])>> \o Tail(joined) \o <<".">>
             /\ ret[Len(ret)] = "."
             /\ ret[Len(ret) - 1] \notin {".", "!", "?"}

\* C5 at work: two of three sentences were kept, the first one capitalized
C5_Witness ==
  /\ Summarized
  /\ arg.text = <<"a", ".", "a", "!", "B">>
  /\ arg.num_sentences = 2
  /\ ret = <<"A", ".", " ", "a", ".">>

(***************************************************************************)
(* Properties of clean_gutenberg_text                                      *)
(***************************************************************************)
Cleaned == pc = "done" /\ op = "clean_gutenberg_text"

IsStartMarkerLine(line) == Contains(line, Marker0) \/ Contains(line, Marker2)

IsEndMarkerLine(line) == Contains(line, Marker1) \/ Contains(line, Marker3)

\* the least and the greatest of a non-empty set of numbers
Least(S) == CHOOSE x \in S : \A y \in S : x <= y

Greatest(S) == CHOOSE x \in S : \A y \in S : y <= x

\* the indexes, from 0, of the lines that satisfy Is
LinesThat(lines, Is(_)) == {i \in 0..(Len(lines) - 1) : Is(lines[i + 1])}

\* C3: end_idx is the index of the first line with an end marker in it,
\* whether or not a start marker came before; nothing of that line or a
\* later one is returned, and with no start-marker line before it start_idx
\* stays 0, the lines kept being lines 0 .. end_idx - 1.
C3_FirstEndMarkerTruncates ==
  Cleaned =>
    LET ends   == LinesThat(ret.lines, IsEndMarkerLine)
        starts == LinesThat(ret.lines, IsStartMarkerLine)
    IN  ends # {} =>
          LET e == Least(ends)
          IN  /\ ret.end_idx = e
              /\ ret.start_idx <= e
              /\ (\A i \in starts : i > e) => ret.start_idx = 0

\* where the scan stops: the first line with one of the four markers in it,
\* without START and with END, or the number of lines
ScanStop(lines) ==
  LET stops == LinesThat(lines, LAMBDA l :
                 /\ HasMarker(l)
                 /\ ~Contains(l, <<"S", "T", "A", "R", "T">>)
                 /\ Contains(l, <<"E", "N", "D">>))
  IN  IF stops = {} THEN Len(lines) ELSE Least(stops)

\* the lines that move start_idx: those before the scan stops with one of
\* the four markers and START in them
StartLines(lines) ==
  {i \in LinesThat(lines, LAMBDA l :
                     HasMarker(l) /\ Contains(l, <<"S", "T", "A", "R", "T">>)) :
     i < ScanStop(lines)}

\* C8 as stated: start_idx is fixed by the first start-marker line; a later
\* one scanned before any end marker does not move it.  Documents with an
\* end marker and the word START in one line are left aside.
C8_StartFixedByFirstMarker ==
  (Cleaned /\ \A i \in LinesThat(ret.lines, IsEndMarkerLine) :
                 ~Contains(ret.lines[i + 1], <<"S", "T", "A", "R", "T">>)) =>
    LET ends   == LinesThat(ret.lines, IsEndMarkerLine)
        starts == {i \in LinesThat(ret.lines, IsStartMarkerLine) :
                     \A e \in ends : i < e}
    IN  starts # {} => ret.start_idx = Least(starts) + 1

\* C8, amended: start_idx is moved by every line scanned that has one of the
\* four markers and START in it, so the last such line before the scan stops
\* fixes it (its index + 1, and 0 with no such line); the lines kept begin
\* after that line.
C8_StartFixedByLastMarker ==
  Cleaned =>
    LET movers == StartLines(ret.lines)
    IN  /\ ret.start_idx = (IF movers = {} THEN 0 ELSE Greatest(movers) + 1)
        /\ ret.end_idx = ScanStop(ret.lines)
        /\ ret.cleaned =
             Strip(CollapseSpaces(CollapseNewlines(
               JoinWith(SubSeq(ret.lines, ret.start_idx + 1, ret.end_idx), <<"\n">>))))

\* C8 at work: a start line, text, a start line again, text; only the text
\* after the second start line was returned
C8_Witness ==
  /\ Cleaned
  /\ ret.lines = <<LineStart, LineText, LineStart, LineText>>
  /\ ret.start_idx = 3
  /\ ret.end_idx = 4
  /\ ret.cleaned = <<"H", "i", " ", "a", ".">>

(***************************************************************************)
(* Properties of the n-gram tables                                         *)
(***************************************************************************)
\* C2: for a non-empty token list and n in 1..3, loading the file saved for
\* calculate_ngrams(tokens, n) gives a table equal to it: the same keys, a
\* token for n = 1 and an n-tuple otherwise, each with the same count.
C2_NgramRoundTrip ==
  (pc = "done" /\ op = "ngram_round_trip") => DictEq(ret.loaded, ret.table)

(***************************************************************************)
(* Properties of the request handlers                                      *)
(***************************************************************************)
\* C7: on both paths that normalize a text, /api/clean and /api/analyze,
\* when the normalized text is empty the response has success = false, and
\* neither get_text_statistics nor create_summary is given the empty text.
C7_EmptyTextIsAFailure ==
  (pc = "done" /\ op \in {"clean_text", "analyze_text"}) =>
    \A i \in 1..Len(calls) :
       (calls[i].fn = "normalize_text" /\ normalize_text(calls[i].text, TRUE) = <<>>) =>
          /\ ~ret.success
          /\ \A j \in 1..Len(calls) :
                calls[j].fn \in {"get_text_statistics", "create_summary"} =>
                  calls[j].text # <<>>

====
